---- MODULE Spec2Model ----
(***************************************************************************)
(* A model of package metrics (stats.go): the Stats counter store, its     *)
(* sync.RWMutex and the goroutines that call Add, Reset, Duration, Print,  *)
(* Json and MarshalJSON on one shared *Stats.                              *)
(*                                                                         *)
(* Every goroutine is a small program counter machine.  A method is split  *)
(* at its statements that touch shared memory (s.keys, s.values, s.start   *)
(* and the words of the RWMutex), so that what the lock does or does not   *)
(* exclude is visible in the reachable states.  The RWMutex is modelled as *)
(* the Go runtime implements it: a writer mutex w, the readerCount word    *)
(* that a pending writer makes negative, readerWait and the semaphores.    *)
(***************************************************************************)
EXTENDS Integers, Sequences, FiniteSets, TLC

\* ------------------------------------------------------------------ bounds
NProcs == 2          \* goroutines sharing the store
MaxOps == 3          \* method calls made on the store in one run
MaxTime == 1         \* clock readings are 0..MaxTime
NM == 2              \* M of the N x M scenario: Add calls per goroutine

Procs == 1..NProcs
Names == {"x", "y"}
Deltas == {-1, 0, 1}

\* sync.RWMutex: the offset a pending writer subtracts from readerCount
rwmutexMaxReaders == 1073741824

\* time.Time{} of a Stats that was never Reset, and the value at which
\* time.Time.Sub saturates (the zero time lies further back than any
\* Duration can express).
ZeroTime == -1
maxDuration == 2147483647

VARIABLES
    keys, values, start,      \* the fields of Stats (stats.go 17-19)
    w, readerCount, readerWait, writerSem, readerSem,   \* Stats.mu
    now,                      \* the clock read by time.Now / time.Since
    pc, stack,                \* per goroutine: position and return labels
    op, arg,                  \* per goroutine: method called, its arguments
    i, n, tmp, r,             \* per goroutine: locals
    ret, b, out,              \* per goroutine: result, buffer, sink writes
    wfail,                    \* per goroutine: the sink rejected a Write
    log, cleared, nops,       \* history: Adds since the last Reset, names
                              \* dropped by a Reset, calls made
    wasReset,                 \* history: a Reset has set the start time
    excluded                  \* history: a writer unlocked while a reader
                              \* that it kept out slept on readerSem

store == <<keys, values, start>>
mutex == <<w, readerCount, readerWait, writerSem, readerSem>>
ctl == <<pc, stack>>
call == <<op, arg, nops>>
locals == <<i, n, tmp, r>>
results == <<ret, b, out, wfail>>
hist == <<log, cleared, wasReset, excluded>>
vars == <<keys, values, start, w, readerCount, readerWait, writerSem,
          readerSem, now, pc, stack, op, arg, i, n, tmp, r, ret, b, out,
          wfail, log, cleared, nops, wasReset, excluded>>

NoArg == [k |-> "", v |-> 0]

Init ==
    /\ keys = <<>> /\ values = <<>> /\ start = ZeroTime
    /\ w = 0 /\ readerCount = 0 /\ readerWait = 0
    /\ writerSem = 0 /\ readerSem = 0
    /\ now = 0
    /\ pc = [p \in Procs |-> "idle"]
    /\ stack = [p \in Procs |-> <<>>]
    /\ op = [p \in Procs |-> "none"]
    /\ arg = [p \in Procs |-> NoArg]
    /\ i = [p \in Procs |-> 0]
    /\ n = [p \in Procs |-> 0]
    /\ tmp = [p \in Procs |-> 0]
    /\ r = [p \in Procs |-> 0]
    /\ ret = [p \in Procs |-> 0]
    /\ b = [p \in Procs |-> ""]
    /\ out = [p \in Procs |-> <<>>]
    /\ wfail = [p \in Procs |-> FALSE]
    /\ log = <<>> /\ cleared = {} /\ nops = 0 /\ wasReset = FALSE
    /\ excluded = FALSE

\* ------------------------------------------------------- control transfer
Goto(p, l) == pc' = [pc EXCEPT ![p] = l] /\ UNCHANGED stack

\* call procedure proc, continuing at label l when it returns
Call(p, proc, l) ==
    /\ pc' = [pc EXCEPT ![p] = proc]
    /\ stack' = [stack EXCEPT ![p] = <<l>> \o @]

Return(p) ==
    /\ pc' = [pc EXCEPT ![p] = Head(stack[p])]
    /\ stack' = [stack EXCEPT ![p] = Tail(@)]

\* ----------------------------------------------------------- sync.RWMutex
\* Lock: rw.w.Lock()
Lock_w(p) ==
    /\ pc[p] = "Lock_w" /\ w = 0
    /\ w' = p
    /\ Goto(p, "Lock_announce")
    /\ UNCHANGED <<store, readerCount, readerWait, writerSem, readerSem,
                   now, call, locals, results, hist>>

\* Lock: r := rw.readerCount.Add(-rwmutexMaxReaders) + rwmutexMaxReaders
Lock_announce(p) ==
    /\ pc[p] = "Lock_announce"
    /\ readerCount' = readerCount - rwmutexMaxReaders
    /\ r' = [r EXCEPT ![p] = readerCount]
    /\ IF readerCount = 0 THEN Return(p) ELSE Goto(p, "Lock_readerWait")
    /\ UNCHANGED <<store, w, readerWait, writerSem, readerSem, now, call,
                   i, n, tmp, results, hist>>

\* Lock: if r != 0 && rw.readerWait.Add(r) != 0 { sleep on writerSem }
Lock_readerWait(p) ==
    /\ pc[p] = "Lock_readerWait"
    /\ readerWait' = readerWait + r[p]
    /\ IF readerWait' # 0 THEN Goto(p, "Lock_sem") ELSE Return(p)
    /\ UNCHANGED <<store, w, readerCount, writerSem, readerSem, now, call,
                   locals, results, hist>>

Lock_sem(p) ==
    /\ pc[p] = "Lock_sem" /\ writerSem > 0
    /\ writerSem' = writerSem - 1
    /\ Return(p)
    /\ UNCHANGED <<store, w, readerCount, readerWait, readerSem, now, call,
                   locals, results, hist>>

\* Unlock: r := rw.readerCount.Add(rwmutexMaxReaders)
Unlock_add(p) ==
    /\ pc[p] = "Unlock_add"
    /\ readerCount' = readerCount + rwmutexMaxReaders
    /\ r' = [r EXCEPT ![p] = readerCount']
    /\ Goto(p, "Unlock_sem")
    /\ excluded' = (excluded \/ \E q \in Procs : pc[q] = "RLock_sem")
    /\ UNCHANGED <<store, w, readerWait, writerSem, readerSem, now, call,
                   i, n, tmp, results, log, cleared, wasReset>>

\* Unlock: for i := 0; i < int(r); i++ { release readerSem }
Unlock_sem(p) ==
    /\ pc[p] = "Unlock_sem"
    /\ IF r[p] > 0
         THEN /\ readerSem' = readerSem + 1
              /\ r' = [r EXCEPT ![p] = @ - 1]
              /\ Goto(p, "Unlock_sem")
         ELSE /\ UNCHANGED <<readerSem, r>>
              /\ Goto(p, "Unlock_w")
    /\ UNCHANGED <<store, w, readerCount, readerWait, writerSem, now, call,
                   i, n, tmp, results, hist>>

\* Unlock: rw.w.Unlock()
Unlock_w(p) ==
    /\ pc[p] = "Unlock_w"
    /\ w' = 0
    /\ Return(p)
    /\ UNCHANGED <<store, readerCount, readerWait, writerSem, readerSem,
                   now, call, locals, results, hist>>

\* RLock: if rw.readerCount.Add(1) < 0 { sleep on readerSem }
RLock_add(p) ==
    /\ pc[p] = "RLock_add"
    /\ readerCount' = readerCount + 1
    /\ IF readerCount' < 0 THEN Goto(p, "RLock_sem") ELSE Return(p)
    /\ UNCHANGED <<store, w, readerWait, writerSem, readerSem, now, call,
                   locals, results, hist>>

RLock_sem(p) ==
    /\ pc[p] = "RLock_sem" /\ readerSem > 0
    /\ readerSem' = readerSem - 1
    /\ Return(p)
    /\ UNCHANGED <<store, w, readerCount, readerWait, writerSem, now, call,
                   locals, results, hist>>

\* RUnlock: if r := rw.readerCount.Add(-1); r < 0 { rw.rUnlockSlow(r) }
RUnlock_add(p) ==
    /\ pc[p] = "RUnlock_add"
    /\ readerCount' = readerCount - 1
    /\ IF readerCount' < 0 THEN Goto(p, "RUnlock_slow") ELSE Return(p)
    /\ UNCHANGED <<store, w, readerWait, writerSem, readerSem, now, call,
                   locals, results, hist>>

\* rUnlockSlow: if rw.readerWait.Add(-1) == 0 { release writerSem }
RUnlock_slow(p) ==
    /\ pc[p] = "RUnlock_slow"
    /\ readerWait' = readerWait - 1
    /\ writerSem' = IF readerWait' = 0 THEN writerSem + 1 ELSE writerSem
    /\ Return(p)
    /\ UNCHANGED <<store, w, readerCount, readerSem, now, call, locals,
                   results, hist>>

MutexStep(p) ==
    \/ Lock_w(p) \/ Lock_announce(p) \/ Lock_readerWait(p) \/ Lock_sem(p)
    \/ Unlock_add(p) \/ Unlock_sem(p) \/ Unlock_w(p)
    \/ RLock_add(p) \/ RLock_sem(p)
    \/ RUnlock_add(p) \/ RUnlock_slow(p)

\* ------------------------------------------------------------ formatting
\* variant: the subtraction does not saturate
SinceUnsaturated(t) == now - t
\* time.Since(s.start): time.Now().Sub(s.start), saturating at maxDuration
Since(t) == IF t = ZeroTime THEN maxDuration ELSE now - t

\* Duration.String() as "%s" prints it; the clock counts nanoseconds and
\* every elapsed time of the model is below one microsecond.
FmtDuration(d) ==
    IF d = 0 THEN "0s"
    ELSE IF d = maxDuration THEN "2562047h47m16.854775807s"
    ELSE ToString(d) \o "ns"

\* w.Write as fmt.Fprintf calls it, once, for goroutine p: the bytes are
\* handed to the sink, which accepts or rejects them; Fprintf's error
\* result is dropped by every caller in stats.go.
Write(p, bytes) ==
    /\ out' = [out EXCEPT ![p] = Append(@, bytes)]
    /\ \E ok \in BOOLEAN : wfail' = [wfail EXCEPT ![p] = @ \/ ~ok]

\* fmt.Fprintf(w, "%s: %d\n", s.keys[i], s.values[i])
PrintLine(k, v) == k \o ": " \o ToString(v) \o "\n"

\* fmt.Fprintf(w, "%s\n", s.Duration())
DurationLine(d) == FmtDuration(d) \o "\n"

\* "\t"+fmt.Sprintf(`"%s": %d`, s.keys[i], s.values[i])
JsonPair(k, v) == "\t" \o "\"" \o k \o "\": " \o ToString(v)

\* variant: no comma after the pair
JsonEntryNoComma(buf, k, v) == buf \o JsonPair(k, v) \o "\n"
\* the loop body of MarshalJSON applied to the buffer buf
JsonEntry(buf, k, v) ==
    LET b1 == buf \o JsonPair(k, v)
        b2 == IF Len(b1) > 1 THEN b1 \o "," ELSE b1
    IN  b2 \o "\n"

\* "\t"+fmt.Sprintf(`"Duration": "%s"`, s.Duration())+"\n"
JsonDuration(d) == "\t" \o "\"Duration\": \"" \o FmtDuration(d) \o "\"" \o "\n"

\* ------------------------------------------------- which lock a method takes
\* variant: Add takes the read lock
AddMuRead == [lock |-> "RLock_add", unlock |-> "RUnlock_add"]
AddMu == [lock |-> "Lock_w", unlock |-> "Unlock_add"]
\* variant: Reset takes the read lock
ResetMuRead == [lock |-> "RLock_add", unlock |-> "RUnlock_add"]
ResetMu == [lock |-> "Lock_w", unlock |-> "Unlock_add"]
DurationMu == [lock |-> "RLock_add", unlock |-> "RUnlock_add"]
PrintMu == [lock |-> "RLock_add", unlock |-> "RUnlock_add"]
MarshalMu == [lock |-> "RLock_add", unlock |-> "RUnlock_add"]

\* ------------------------------------------------------------------- Add
\* variant: the search for the name never succeeds
AddFoundNever(ks, idx, k) == FALSE
\* variant: the first entry is taken for the name
AddFoundAny(ks, idx, k) == TRUE
\* if s.keys[i] == k
AddFound(ks, idx, k) == ks[idx] = k

\* variant: the counter is kept at or above zero
AddSumClamped(t, v) == IF t + v < 0 THEN 0 ELSE t + v
\* variant: the delta replaces the value
AddSumOverwrite(t, v) == v
\* s.values[i] += v
AddSum(t, v) == t + v

\* variant: a new name goes to the front
AddPrepend(ks, k) == <<k>> \o ks
\* variant: the new name is not stored
AddAppendNone(ks, k) == ks
\* s.keys = append(s.keys, k)
AddAppend(ks, k) == Append(ks, k)

\* the call Add(k, v) by goroutine p
InvokeAdd(p, k, v) ==
    /\ pc[p] = "idle"
    /\ op' = [op EXCEPT ![p] = "Add"]
    /\ arg' = [arg EXCEPT ![p] = [k |-> k, v |-> v]]
    /\ pc' = [pc EXCEPT ![p] = "Add"]
    /\ stack' = [stack EXCEPT ![p] = <<"done">>]
    /\ UNCHANGED <<store, mutex, now, locals, results, hist>>

CallAdd(p, k, v) ==
    /\ nops < MaxOps
    /\ nops' = nops + 1
    /\ InvokeAdd(p, k, v)

\* s.mu.Lock(); defer s.mu.Unlock()
Add_Lock(p) ==
    /\ pc[p] = "Add"
    /\ Call(p, AddMu.lock, "Add_range")
    /\ UNCHANGED <<store, mutex, now, call, locals, results, hist>>

\* for i := range s.keys: the length is read once.  The call takes its
\* place in the history here, inside the critical section.
Add_range(p) ==
    /\ pc[p] = "Add_range"
    /\ n' = [n EXCEPT ![p] = Len(keys)]
    /\ i' = [i EXCEPT ![p] = 1]
    /\ log' = Append(log, [p |-> p, k |-> arg[p].k, v |-> arg[p].v])
    /\ Goto(p, "Add_cmp")
    /\ UNCHANGED <<store, mutex, now, call, tmp, r, results, cleared,
                   wasReset, excluded>>

Add_cmp(p) ==
    /\ pc[p] = "Add_cmp"
    /\ IF i[p] > n[p]
         THEN Goto(p, "Add_appendk") /\ UNCHANGED i
         ELSE IF i[p] > Len(keys)
                THEN Goto(p, "panic") /\ UNCHANGED i
                ELSE IF AddFound(keys, i[p], arg[p].k)
                       THEN Goto(p, "Add_load") /\ UNCHANGED i
                       ELSE /\ i' = [i EXCEPT ![p] = @ + 1]
                            /\ Goto(p, "Add_cmp")
    /\ UNCHANGED <<store, mutex, now, call, n, tmp, r, results, hist>>

\* s.values[i] += v, the load
Add_load(p) ==
    /\ pc[p] = "Add_load"
    /\ IF i[p] > Len(values)
         THEN Goto(p, "panic") /\ UNCHANGED tmp
         ELSE /\ tmp' = [tmp EXCEPT ![p] = values[i[p]]]
              /\ Goto(p, "Add_store")
    /\ UNCHANGED <<store, mutex, now, call, i, n, r, results, hist>>

\* s.values[i] += v, the store
Add_store(p) ==
    /\ pc[p] = "Add_store"
    /\ IF i[p] > Len(values)
         THEN Goto(p, "panic") /\ UNCHANGED values
         ELSE /\ values' = [values EXCEPT ![i[p]] = AddSum(tmp[p], arg[p].v)]
              /\ Goto(p, "Add_retv")
    /\ UNCHANGED <<keys, start, mutex, now, call, locals, results, hist>>

\* return s.values[i], then the deferred Unlock
Add_retv(p) ==
    /\ pc[p] = "Add_retv"
    /\ IF i[p] > Len(values)
         THEN Goto(p, "panic") /\ UNCHANGED ret
         ELSE /\ ret' = [ret EXCEPT ![p] = values[i[p]]]
              /\ Goto(p, AddMu.unlock)
    /\ UNCHANGED <<store, mutex, now, call, locals, b, out, wfail, hist>>

\* s.keys = append(s.keys, k)
Add_appendk(p) ==
    /\ pc[p] = "Add_appendk"
    /\ keys' = AddAppend(keys, arg[p].k)
    /\ Goto(p, "Add_appendv")
    /\ UNCHANGED <<values, start, mutex, now, call, locals, results, hist>>

\* s.values = append(s.values, v); return v, then the deferred Unlock
Add_appendv(p) ==
    /\ pc[p] = "Add_appendv"
    /\ values' = Append(values, arg[p].v)
    /\ ret' = [ret EXCEPT ![p] = arg[p].v]
    /\ Goto(p, AddMu.unlock)
    /\ UNCHANGED <<keys, start, mutex, now, call, locals, b, out, wfail, hist>>

AddStep(p) ==
    \/ Add_Lock(p) \/ Add_range(p) \/ Add_cmp(p) \/ Add_load(p)
    \/ Add_store(p) \/ Add_retv(p) \/ Add_appendk(p) \/ Add_appendv(p)

\* ----------------------------------------------------------------- Reset
Range(f) == {f[x] : x \in DOMAIN f}

CallReset(p) ==
    /\ pc[p] = "idle" /\ nops < MaxOps
    /\ op' = [op EXCEPT ![p] = "Reset"]
    /\ nops' = nops + 1
    /\ pc' = [pc EXCEPT ![p] = "Reset"]
    /\ stack' = [stack EXCEPT ![p] = <<"done">>]
    /\ UNCHANGED <<store, mutex, now, arg, locals, results, hist>>

\* s.mu.Lock(); defer s.mu.Unlock()
Reset_Lock(p) ==
    /\ pc[p] = "Reset"
    /\ Call(p, ResetMu.lock, "Reset_keys")
    /\ UNCHANGED <<store, mutex, now, call, locals, results, hist>>

\* variant: the keys are left in place
Reset_keysKept(p) ==
    /\ pc[p] = "Reset_keys"
    /\ log' = <<>>
    /\ cleared' = cleared \cup Range(keys)
    /\ Goto(p, "Reset_values")
    /\ UNCHANGED <<store, mutex, now, call, locals, results, wasReset,
                   excluded>>

\* s.keys = []string{}
Reset_keys(p) ==
    /\ pc[p] = "Reset_keys"
    /\ keys' = <<>>
    /\ log' = <<>>
    /\ cleared' = cleared \cup Range(keys)
    /\ Goto(p, "Reset_values")
    /\ UNCHANGED <<values, start, mutex, now, call, locals, results,
                   wasReset, excluded>>

\* variant: the values are left in place
Reset_valuesKept(p) ==
    /\ pc[p] = "Reset_values"
    /\ Goto(p, "Reset_start")
    /\ UNCHANGED <<store, mutex, now, call, locals, results, hist>>

\* s.values = []int{}
Reset_values(p) ==
    /\ pc[p] = "Reset_values"
    /\ values' = <<>>
    /\ Goto(p, "Reset_start")
    /\ UNCHANGED <<keys, start, mutex, now, call, locals, results, hist>>

\* variant: the window starts at the clock's origin
Reset_startEpoch(p) ==
    /\ pc[p] = "Reset_start"
    /\ start' = 0
    /\ wasReset' = TRUE
    /\ Goto(p, ResetMu.unlock)
    /\ UNCHANGED <<keys, values, mutex, now, call, locals, results, log,
                   cleared, excluded>>

\* s.start = time.Now(), then the deferred Unlock
Reset_start(p) ==
    /\ pc[p] = "Reset_start"
    /\ start' = now
    /\ wasReset' = TRUE
    /\ Goto(p, ResetMu.unlock)
    /\ UNCHANGED <<keys, values, mutex, now, call, locals, results, log,
                   cleared, excluded>>

ResetStep(p) ==
    \/ Reset_Lock(p) \/ Reset_keys(p) \/ Reset_values(p) \/ Reset_start(p)

\* -------------------------------------------------------------- Duration
CallDuration(p) ==
    /\ pc[p] = "idle" /\ nops < MaxOps
    /\ op' = [op EXCEPT ![p] = "Duration"]
    /\ nops' = nops + 1
    /\ pc' = [pc EXCEPT ![p] = "Duration"]
    /\ stack' = [stack EXCEPT ![p] = <<"done">>]
    /\ UNCHANGED <<store, mutex, now, arg, locals, results, hist>>

\* s.mu.RLock(); defer s.mu.RUnlock()
Duration_RLock(p) ==
    /\ pc[p] = "Duration"
    /\ Call(p, DurationMu.lock, "Duration_since")
    /\ UNCHANGED <<store, mutex, now, call, locals, results, hist>>

\* variant: reading the duration restarts the window
Duration_sinceRestart(p) ==
    /\ pc[p] = "Duration_since"
    /\ ret' = [ret EXCEPT ![p] = Since(start)]
    /\ start' = now
    /\ Goto(p, DurationMu.unlock)
    /\ UNCHANGED <<keys, values, mutex, now, call, locals, b, out, wfail,
                   hist>>

\* return time.Since(s.start), then the deferred RUnlock
Duration_since(p) ==
    /\ pc[p] = "Duration_since"
    /\ ret' = [ret EXCEPT ![p] = Since(start)]
    /\ Goto(p, DurationMu.unlock)
    /\ UNCHANGED <<store, mutex, now, call, locals, b, out, wfail, hist>>

DurationStep(p) == Duration_RLock(p) \/ Duration_since(p)

\* ----------------------------------------------------------------- Print
\* variant: the duration line is written unconditionally
PrintAlways(ks) == TRUE
\* if len(s.keys) > 0
PrintHasEntries(ks) == Len(ks) > 0

\* the call Print(w) by goroutine p
InvokePrint(p) ==
    /\ pc[p] = "idle"
    /\ op' = [op EXCEPT ![p] = "Print"]
    /\ pc' = [pc EXCEPT ![p] = "Print"]
    /\ stack' = [stack EXCEPT ![p] = <<"done">>]
    /\ UNCHANGED <<store, mutex, now, arg, locals, results, hist>>

CallPrint(p) ==
    /\ nops < MaxOps
    /\ nops' = nops + 1
    /\ InvokePrint(p)

\* s.mu.RLock(); defer s.mu.RUnlock()
Print_RLock(p) ==
    /\ pc[p] = "Print"
    /\ Call(p, PrintMu.lock, "Print_range")
    /\ UNCHANGED <<store, mutex, now, call, locals, results, hist>>

\* for i := range s.keys
Print_range(p) ==
    /\ pc[p] = "Print_range"
    /\ n' = [n EXCEPT ![p] = Len(keys)]
    /\ i' = [i EXCEPT ![p] = 1]
    /\ Goto(p, "Print_loop")
    /\ UNCHANGED <<store, mutex, now, call, tmp, r, results, hist>>

\* fmt.Fprintf(w, "%s: %d\n", s.keys[i], s.values[i]): one Write per line
Print_loop(p) ==
    /\ pc[p] = "Print_loop"
    /\ IF i[p] > n[p]
         THEN Goto(p, "Print_if") /\ UNCHANGED <<i, out, wfail>>
         ELSE IF i[p] > Len(keys) \/ i[p] > Len(values)
                THEN Goto(p, "panic") /\ UNCHANGED <<i, out, wfail>>
                ELSE /\ Write(p, PrintLine(keys[i[p]], values[i[p]]))
                     /\ i' = [i EXCEPT ![p] = @ + 1]
                     /\ Goto(p, "Print_loop")
    /\ UNCHANGED <<store, mutex, now, call, n, tmp, r, ret, b, hist>>

\* if len(s.keys) > 0 { ... s.Duration() ... }, else the deferred RUnlock
Print_if(p) ==
    /\ pc[p] = "Print_if"
    /\ IF PrintHasEntries(keys)
         THEN Call(p, "Duration", "Print_durline")
         ELSE Goto(p, PrintMu.unlock)
    /\ UNCHANGED <<store, mutex, now, call, locals, results, hist>>

\* fmt.Fprintf(w, "%s\n", <the Duration>), then the deferred RUnlock
Print_durline(p) ==
    /\ pc[p] = "Print_durline"
    /\ Write(p, DurationLine(ret[p]))
    /\ Goto(p, PrintMu.unlock)
    /\ UNCHANGED <<store, mutex, now, call, locals, ret, b, hist>>

PrintStep(p) ==
    \/ Print_RLock(p) \/ Print_range(p) \/ Print_loop(p) \/ Print_if(p)
    \/ Print_durline(p)

\* ----------------------------------------------------------- MarshalJSON
\* variant: the Duration line is appended unconditionally
MarshalAlways(ks) == TRUE
\* if len(s.keys) > 0
MarshalHasEntries(ks) == Len(ks) > 0

\* the call MarshalJSON() by goroutine p
InvokeMarshalJSON(p) ==
    /\ pc[p] = "idle"
    /\ op' = [op EXCEPT ![p] = "MarshalJSON"]
    /\ pc' = [pc EXCEPT ![p] = "MarshalJSON"]
    /\ stack' = [stack EXCEPT ![p] = <<"done">>]
    /\ UNCHANGED <<store, mutex, now, arg, locals, results, hist>>

CallMarshalJSON(p) ==
    /\ nops < MaxOps
    /\ nops' = nops + 1
    /\ InvokeMarshalJSON(p)

\* s.mu.RLock(); defer s.mu.RUnlock()
Marshal_RLock(p) ==
    /\ pc[p] = "MarshalJSON"
    /\ Call(p, MarshalMu.lock, "Marshal_init")
    /\ UNCHANGED <<store, mutex, now, call, locals, results, hist>>

\* b := []byte("{\n"); for i := range s.keys
Marshal_init(p) ==
    /\ pc[p] = "Marshal_init"
    /\ b' = [b EXCEPT ![p] = "{\n"]
    /\ n' = [n EXCEPT ![p] = Len(keys)]
    /\ i' = [i EXCEPT ![p] = 1]
    /\ Goto(p, "Marshal_loop")
    /\ UNCHANGED <<store, mutex, now, call, tmp, r, ret, out, wfail, hist>>

\* the loop body: the pair, the comma, the newline
Marshal_loop(p) ==
    /\ pc[p] = "Marshal_loop"
    /\ IF i[p] > n[p]
         THEN Goto(p, "Marshal_if") /\ UNCHANGED <<i, b>>
         ELSE IF i[p] > Len(keys) \/ i[p] > Len(values)
                THEN Goto(p, "panic") /\ UNCHANGED <<i, b>>
                ELSE /\ b' = [b EXCEPT ![p] =
                                JsonEntry(@, keys[i[p]], values[i[p]])]
                     /\ i' = [i EXCEPT ![p] = @ + 1]
                     /\ Goto(p, "Marshal_loop")
    /\ UNCHANGED <<store, mutex, now, call, n, tmp, r, ret, out, wfail, hist>>

\* if len(s.keys) > 0 { ... s.Duration() ... }
Marshal_if(p) ==
    /\ pc[p] = "Marshal_if"
    /\ IF MarshalHasEntries(keys)
         THEN Call(p, "Duration", "Marshal_dur")
         ELSE Goto(p, "Marshal_close")
    /\ UNCHANGED <<store, mutex, now, call, locals, results, hist>>

\* b = append(b, <the Duration line>)
Marshal_dur(p) ==
    /\ pc[p] = "Marshal_dur"
    /\ b' = [b EXCEPT ![p] = @ \o JsonDuration(ret[p])]
    /\ Goto(p, "Marshal_close")
    /\ UNCHANGED <<store, mutex, now, call, locals, ret, out, wfail, hist>>

\* b = append(b, []byte("}\n")...); return b, nil, then the deferred RUnlock
Marshal_close(p) ==
    /\ pc[p] = "Marshal_close"
    /\ b' = [b EXCEPT ![p] = @ \o "}\n"]
    /\ Goto(p, MarshalMu.unlock)
    /\ UNCHANGED <<store, mutex, now, call, locals, ret, out, wfail, hist>>

MarshalStep(p) ==
    \/ Marshal_RLock(p) \/ Marshal_init(p) \/ Marshal_loop(p)
    \/ Marshal_if(p) \/ Marshal_dur(p) \/ Marshal_close(p)

\* ------------------------------------------------------------------ Json
CallJson(p) ==
    /\ pc[p] = "idle" /\ nops < MaxOps
    /\ op' = [op EXCEPT ![p] = "Json"]
    /\ nops' = nops + 1
    /\ pc' = [pc EXCEPT ![p] = "Json"]
    /\ stack' = [stack EXCEPT ![p] = <<"done">>]
    /\ UNCHANGED <<store, mutex, now, arg, locals, results, hist>>

\* d, _ := s.MarshalJSON()
Json_Marshal(p) ==
    /\ pc[p] = "Json"
    /\ Call(p, "MarshalJSON", "Json_write")
    /\ UNCHANGED <<store, mutex, now, call, locals, results, hist>>

\* fmt.Fprintf(w, "%s", d)
Json_write(p) ==
    /\ pc[p] = "Json_write"
    /\ Write(p, b[p])
    /\ Return(p)
    /\ UNCHANGED <<store, mutex, now, call, locals, ret, b, hist>>

JsonStep(p) == Json_Marshal(p) \/ Json_write(p)

\* --------------------------------------------------- the caller, the clock
\* the method has returned; the caller takes the result and the goroutine
\* is free to make its next call
Finish(p) ==
    /\ pc[p] = "done"
    /\ pc' = [pc EXCEPT ![p] = "idle"]
    /\ op' = [op EXCEPT ![p] = "none"]
    /\ arg' = [arg EXCEPT ![p] = NoArg]
    /\ i' = [i EXCEPT ![p] = 0]
    /\ n' = [n EXCEPT ![p] = 0]
    /\ tmp' = [tmp EXCEPT ![p] = 0]
    /\ r' = [r EXCEPT ![p] = 0]
    /\ ret' = [ret EXCEPT ![p] = 0]
    /\ b' = [b EXCEPT ![p] = ""]
    /\ out' = [out EXCEPT ![p] = <<>>]
    /\ wfail' = [wfail EXCEPT ![p] = FALSE]
    /\ UNCHANGED <<store, mutex, now, stack, nops, hist>>

Tick ==
    /\ now < MaxTime
    /\ now' = now + 1
    /\ UNCHANGED <<store, mutex, ctl, call, locals, results, hist>>

Invoke(p) ==
    \/ \E k \in Names, v \in Deltas : CallAdd(p, k, v)
    \/ CallReset(p)
    \/ CallDuration(p)
    \/ CallPrint(p)
    \/ CallJson(p)
    \/ CallMarshalJSON(p)

\* one step of goroutine p inside a method
Step(p) ==
    \/ MutexStep(p) \/ AddStep(p) \/ ResetStep(p) \/ DurationStep(p)
    \/ PrintStep(p) \/ MarshalStep(p) \/ JsonStep(p)

Next == \/ \E p \in Procs : Invoke(p) \/ Step(p) \/ Finish(p)
        \/ Tick

Spec == Init /\ [][Next]_vars

\* ---------------------------------------------------- the N x M scenario
\* NProcs goroutines call Add("x", 1), NM times each, while Duration is
\* called alongside; no Reset.
RECURSIVE CountBy(_, _)
CountBy(lg, p) ==
    IF lg = <<>> THEN 0
    ELSE (IF Head(lg).p = p THEN 1 ELSE 0) + CountBy(Tail(lg), p)

CallAddNM(p) ==
    /\ CountBy(log, p) < NM
    /\ InvokeAdd(p, "x", 1)
    /\ UNCHANGED nops

NextNM ==
    \E p \in Procs :
        \/ CallAddNM(p)
        \/ CallDuration(p)
        \/ MutexStep(p) \/ AddStep(p) \/ DurationStep(p)
        \/ Finish(p)

SpecNM == Init /\ [][NextNM]_vars

\* ------------------------------------------------- the listing scenario
\* MaxOps calls of Add(k, 1), of any name, while Print and MarshalJSON are
\* called alongside, any number of times; no Reset.  Long enough for a name
\* to be added again after another name and the store to be listed
\* afterwards.
CallAddOrd(p) == \E k \in Names : CallAdd(p, k, 1)

CallPrintOrd(p) == InvokePrint(p) /\ UNCHANGED nops

CallMarshalOrd(p) == InvokeMarshalJSON(p) /\ UNCHANGED nops

NextOrd ==
    \E p \in Procs :
        \/ CallAddOrd(p)
        \/ CallPrintOrd(p)
        \/ CallMarshalOrd(p)
        \/ MutexStep(p) \/ AddStep(p) \/ DurationStep(p)
        \/ PrintStep(p) \/ MarshalStep(p)
        \/ Finish(p)

SpecOrd == Init /\ [][NextOrd]_vars

\* ------------------------------------------------ what the history says
\* the sum of the deltas the history holds for name k
RECURSIVE SumOf(_, _)
SumOf(lg, k) ==
    IF lg = <<>> THEN 0
    ELSE (IF Head(lg).k = k THEN Head(lg).v ELSE 0) + SumOf(Tail(lg), k)

LogNames(lg) == {lg[j].k : j \in DOMAIN lg}

\* the distinct names of the history in the order they first occur
RECURSIVE FirstSeen(_)
FirstSeen(lg) ==
    IF lg = <<>> THEN <<>>
    ELSE LET f == FirstSeen(SubSeq(lg, 1, Len(lg) - 1))
             k == lg[Len(lg)].k
         IN  IF k \in Range(f) THEN f ELSE Append(f, k)

\* goroutine p is between the return of s.mu.Lock() and s.mu.Unlock()
WriterInside(p) ==
    \/ pc[p] \in {"Add_range", "Add_cmp", "Add_load", "Add_store",
                  "Add_retv", "Add_appendk", "Add_appendv",
                  "Reset_keys", "Reset_values", "Reset_start"}
    \/ op[p] = "Add" /\ pc[p] = AddMu.unlock
    \/ op[p] = "Reset" /\ pc[p] = ResetMu.unlock

\* no Add and no Reset is inside its critical section
Quiet == \A p \in Procs : ~WriterInside(p)

\* Add has computed its result and is about to run the deferred Unlock
AddReturns(p) == op[p] = "Add" /\ pc[p] = AddMu.unlock

\* the position of name k in ks (0 when absent)
IndexIn(ks, k) ==
    IF k \in Range(ks) THEN CHOOSE j \in DOMAIN ks : ks[j] = k ELSE 0

\* -------------------------------------------------------------- claims
\* C1: whenever no Add or Reset is inside its critical section, every
\* stored name has a value, and it is the sum of the deltas of all Add
\* calls for that name since the last Reset (or since construction); the
\* sum is not clamped, so it may be negative.
C1_ValueIsSumOfDeltas ==
    Quiet =>
        /\ Range(keys) = LogNames(log)
        /\ \A j \in DOMAIN keys :
              j \in DOMAIN values /\ values[j] = SumOf(log, keys[j])

\* several Adds of one name, some negative, have driven its value below 0
C1_Witness ==
    /\ Quiet
    /\ \E j \in DOMAIN keys :
          /\ values[j] < 0
          /\ \E a, c \in DOMAIN log :
                a # c /\ log[a].k = keys[j] /\ log[c].k = keys[j]
                /\ log[a].v < 0

\* C2: once every one of the NProcs callers has made its NM calls of
\* Add("x", 1) and all of them have returned, the store holds exactly
\* "x" with the value NProcs * NM.
AllReturned ==
    \A p \in Procs : pc[p] = "idle" /\ CountBy(log, p) = NM

C2_NoLostUpdate ==
    AllReturned => keys = <<"x">> /\ values = <<NProcs * NM>>

C2_Witness == AllReturned /\ Len(log) = NProcs * NM

\* C3: the value Add(k, v) returns is v when k had no entry, and the old
\* value plus v when it had one; in both cases it is the value the store
\* then holds for k.
C3_AddReturnsNewTotal ==
    \A p \in Procs :
        AddReturns(p) =>
            /\ log # <<>>
            /\ log[Len(log)] = [p |-> p, k |-> arg[p].k, v |-> arg[p].v]
            /\ LET before == SubSeq(log, 1, Len(log) - 1)
               IN  ret[p] = IF arg[p].k \in LogNames(before)
                              THEN SumOf(before, arg[p].k) + arg[p].v
                              ELSE arg[p].v
            /\ IndexIn(keys, arg[p].k) \in DOMAIN values
            /\ values[IndexIn(keys, arg[p].k)] = ret[p]

\* an Add to an existing non-zero entry returns, in a store where another
\* name was created by an Add of zero
C3_Witness ==
    \E p \in Procs :
        /\ AddReturns(p)
        /\ arg[p].v # 0
        /\ SumOf(SubSeq(log, 1, Len(log) - 1), arg[p].k) # 0
        /\ \E j \in DOMAIN log :
              /\ log[j].v = 0 /\ log[j].k # arg[p].k
              /\ log[j].k \in Range(keys)
              /\ values[IndexIn(keys, log[j].k)] = 0

\* goroutine p waits for the lock and cannot take its next step
Blocked(p) ==
    \/ pc[p] = "Lock_w" /\ w # 0
    \/ pc[p] = "Lock_sem" /\ writerSem = 0
    \/ pc[p] = "RLock_sem" /\ readerSem = 0

\* goroutine p is inside a method and its next step is enabled
CanStep(p) == pc[p] \notin {"idle", "done", "panic"} /\ ~Blocked(p)

\* C4: every invoked operation runs to completion: whenever a caller waits
\* for the lock, some goroutine inside a method (the one holding the lock)
\* can take a step, so no set of callers waits for the lock forever.
C4_NoCallerBlockedForever ==
    (\E p \in Procs : Blocked(p)) => (\E q \in Procs : CanStep(q))

\* C5: when Reset returns the store has no entries, and the first Add of a
\* name after a Reset returns its delta, whether or not the name had an
\* entry before the Reset.
ResetReturns(p) == op[p] = "Reset" /\ pc[p] = ResetMu.unlock

C5_ResetRestartsCounting ==
    /\ \A p \in Procs :
          ResetReturns(p) => keys = <<>> /\ values = <<>> /\ log = <<>>
    /\ \A p \in Procs :
          (/\ AddReturns(p)
           /\ start # ZeroTime
           /\ arg[p].k \notin LogNames(SubSeq(log, 1, Len(log) - 1)))
          => /\ ret[p] = arg[p].v
             /\ IndexIn(keys, arg[p].k) \in DOMAIN values
             /\ values[IndexIn(keys, arg[p].k)] = arg[p].v

\* the first Add after a Reset of a name the Reset dropped returns its
\* non-zero delta
C5_Witness ==
    \E p \in Procs :
        /\ AddReturns(p)
        /\ start # ZeroTime
        /\ arg[p].k \in cleared
        /\ Len(log) = 1
        /\ arg[p].v # 0
        /\ ret[p] = arg[p].v

\* goroutine p is inside the critical section of Add or of a read
\* operation: between the return of its Lock/RLock and its Unlock/RUnlock
AddInside(p) ==
    \/ pc[p] \in {"Add_range", "Add_cmp", "Add_load", "Add_store",
                  "Add_retv", "Add_appendk", "Add_appendv"}
    \/ AddReturns(p)

ReaderInside(p) ==
    \/ pc[p] \in {"Duration_since", "Print_range", "Print_loop", "Print_if",
                  "Print_durline", "Marshal_init", "Marshal_loop",
                  "Marshal_if", "Marshal_dur", "Marshal_close"}
    \/ "Print_durline" \in Range(stack[p])
    \/ "Marshal_dur" \in Range(stack[p])
    \/ op[p] \in {"Duration", "Print", "MarshalJSON", "Json"}
          /\ pc[p] = "RUnlock_add"

\* a Reset has cleared part of the state and not yet all of it
ResetHalfDone(q) == pc[q] \in {"Reset_values", "Reset_start"}

\* C6: no Add and no read operation is inside its critical section while a
\* Reset is between its first and its last assignment, and what they see
\* pairs every key with a value.
C6_ResetNeverSeenTorn ==
    \A p \in Procs :
        (AddInside(p) \/ ReaderInside(p)) =>
            /\ \A q \in Procs \ {p} : ~ResetHalfDone(q)
            /\ pc[p] \notin {"Add_appendv"} => Len(keys) = Len(values)

\* a Reset has cleared the keys of a non-empty store and not yet the
\* values, while another goroutine has called Add or a read operation and
\* waits for the lock
C6_Witness ==
    \E q \in Procs :
        /\ pc[q] = "Reset_values" /\ values # <<>>
        /\ \E p \in Procs \ {q} :
              /\ op[p] \in {"Add", "Print", "MarshalJSON", "Duration"}
              /\ pc[p] \in {"Lock_w", "RLock_sem"}

\* fmt.Fprintf(w, "%s: %d\n", ...) for every entry of a store
EntryLines(ks, vs) == [j \in DOMAIN ks |-> PrintLine(ks[j], vs[j])]

\* Print holds the read lock: from the return of its RLock to its RUnlock
PrintInside(p) ==
    /\ op[p] = "Print"
    /\ \/ pc[p] \in {"Print_range", "Print_loop", "Print_if", "Print_durline"}
       \/ "Print_durline" \in Range(stack[p])
       \/ pc[p] = PrintMu.unlock /\ stack[p] = <<"done">>

\* the durations time.Since(start) can have returned up to now
Elapsed ==
    IF start = ZeroTime THEN {maxDuration} ELSE {t - start : t \in start..now}

\* C7: as long as a Print holds the lock, the entry lines it has written
\* are the first lines of the rendering of the store as it is now (so no
\* Add or Reset took effect since its first line), at most followed by the
\* duration line.
C7_PrintIsSnapshot ==
    \A p \in Procs :
        PrintInside(p) =>
            /\ Len(keys) = Len(values)
            /\ LET e == EntryLines(keys, values)
               IN  \/ \E m \in 0..Len(e) : out[p] = SubSeq(e, 1, m)
                   \/ \E d \in Elapsed : out[p] = Append(e, DurationLine(d))

\* a Print has written a line and still holds the lock while an Add or a
\* Reset called by another goroutine waits for it
C7_Witness ==
    \E p \in Procs :
        /\ PrintInside(p) /\ Len(out[p]) >= 1
        /\ \E q \in Procs \ {p} :
              op[q] \in {"Add", "Reset"} /\ pc[q] \in {"Lock_readerWait", "Lock_sem"}

\* the buffer of MarshalJSON after the first m entries of a store
RECURSIVE JsonBuf(_, _, _)
JsonBuf(ks, vs, m) ==
    IF m = 0 THEN "{\n" ELSE JsonEntry(JsonBuf(ks, vs, m - 1), ks[m], vs[m])

\* C8: the keys are the distinct names in the order of their first Add
\* since the last Reset, and Print and MarshalJSON both list the entries
\* in that order.
C8_InsertionOrder ==
    /\ Quiet => keys = FirstSeen(log)
    /\ \A p \in Procs :
          pc[p] = "Print_if" =>
              /\ Len(values) = Len(FirstSeen(log))
              /\ out[p] = EntryLines(FirstSeen(log), values)
    /\ \A p \in Procs :
          pc[p] = "Marshal_if" =>
              /\ Len(values) = Len(FirstSeen(log))
              /\ b[p] = JsonBuf(FirstSeen(log), values, Len(values))

\* Add x, Add y, Add x, then a Print and a MarshalJSON that have both
\* listed the entries: x with its total of 2 comes before y in both
C8_Witness ==
    /\ Len(log) = 3 /\ keys = <<"x", "y">> /\ values = <<2, 1>>
    /\ log[1].k = "x" /\ log[2].k = "y" /\ log[3].k = "x"
    /\ \E p, q \in Procs :
          /\ pc[p] = "Print_if" /\ pc[q] = "Marshal_if"
          /\ out[p] = <<"x: 2\n", "y: 1\n">>
          /\ b[q] = "{\n\t\"x\": 2,\n\t\"y\": 1,\n"

\* C9: in every reachable state no name occurs twice in the keys.
C9_NoDuplicateNames ==
    \A j, l \in DOMAIN keys : j # l => keys[j] # keys[l]

\* two names are stored and one of them was added twice
C9_Witness ==
    /\ Len(keys) = 2
    /\ \E a, c \in DOMAIN log : a # c /\ log[a].k = log[c].k

\* Print has written all it writes and is about to run the deferred RUnlock
PrintReturns(p) ==
    op[p] = "Print" /\ pc[p] = PrintMu.unlock /\ stack[p] = <<"done">>

\* the bytes a sequence of writes has sent to the sink
RECURSIVE Bytes(_)
Bytes(ws) == IF ws = <<>> THEN "" ELSE Head(ws) \o Bytes(Tail(ws))

\* C10: when Print returns it has written, for a non-empty store, the line
\* "<name>: <value>" of every entry in the order of the keys and then one
\* duration line, and for an empty store nothing at all.
C10_PrintOutput ==
    \A p \in Procs :
        PrintReturns(p) =>
            IF keys = <<>>
              THEN out[p] = <<>> /\ Bytes(out[p]) = ""
              ELSE /\ Len(values) = Len(keys)
                   /\ Len(out[p]) = Len(keys) + 1
                   /\ \A j \in DOMAIN keys :
                         out[p][j] = keys[j] \o ": " \o ToString(values[j]) \o "\n"
                   /\ \E d \in Elapsed :
                         out[p][Len(out[p])] = FmtDuration(d) \o "\n"

\* one Print of the empty store has returned with nothing written, and a
\* Print of a store with entries is returning
C10_Witness ==
    \E p, q \in Procs :
        /\ PrintReturns(p) /\ keys # <<>> /\ Len(out[p]) = Len(keys) + 1
        /\ op[q] = "Print" /\ pc[q] = "done" /\ out[q] = <<>>

\* MarshalJSON has built its result and is about to run the deferred
\* RUnlock (called directly or by Json)
MarshalReturns(p) ==
    /\ op[p] \in {"MarshalJSON", "Json"}
    /\ pc[p] = MarshalMu.unlock
    /\ Head(stack[p]) \in {"done", "Json_write"}

\* the lines of the first m entries, each pair followed by a comma
RECURSIVE EntryLinesWithComma(_, _, _)
EntryLinesWithComma(ks, vs, m) ==
    IF m = 0 THEN ""
    ELSE EntryLinesWithComma(ks, vs, m - 1)
           \o "\t\"" \o ks[m] \o "\": " \o ToString(vs[m]) \o ",\n"

\* C11 as claimed: for a non-empty store MarshalJSON returns the opening
\* brace, one line per entry in the order of the keys, each ending with a
\* comma, then the "Duration" line, also ending with a comma, then the
\* closing brace.
C11_DurationLineHasComma ==
    \A p \in Procs :
        (MarshalReturns(p) /\ keys # <<>>) =>
            /\ Len(values) = Len(keys)
            /\ \E d \in Elapsed :
                  b[p] = "{\n" \o EntryLinesWithComma(keys, values, Len(keys))
                           \o "\t\"Duration\": \"" \o FmtDuration(d) \o "\",\n"
                           \o "}\n"

\* C11 as amended: for a non-empty store MarshalJSON returns the opening
\* brace, one line per entry in the order of the keys, each ending with a
\* comma (the last entry included), then the "Duration" line as the last
\* key, which ends without a comma, then the closing brace.
C11_MarshalOutput ==
    \A p \in Procs :
        (MarshalReturns(p) /\ keys # <<>>) =>
            /\ Len(values) = Len(keys)
            /\ \E d \in Elapsed :
                  b[p] = "{\n" \o EntryLinesWithComma(keys, values, Len(keys))
                           \o "\t\"Duration\": \"" \o FmtDuration(d) \o "\"\n"
                           \o "}\n"

\* MarshalJSON returns for a store of two entries
C11_Witness ==
    \E p \in Procs : MarshalReturns(p) /\ Len(keys) = 2 /\ Len(b[p]) > 4

\* C12: for a store without entries MarshalJSON returns the line of the
\* opening brace directly followed by the line of the closing brace: no
\* entry line and no Duration line.
C12_MarshalEmpty ==
    \A p \in Procs :
        (MarshalReturns(p) /\ keys = <<>>) => b[p] = "{\n" \o "}\n"

\* MarshalJSON returns for a store a Reset has emptied
C12_Witness ==
    \E p \in Procs :
        MarshalReturns(p) /\ keys = <<>> /\ cleared # {} /\ b[p] = "{\n}\n"

\* what the call of goroutine p hands back to its caller: Add and Duration
\* return one value, MarshalJSON returns (b, nil), Reset, Print and Json
\* return nothing
Result(p) ==
    CASE op[p] \in {"Add", "Duration"} -> <<ret[p]>>
      [] op[p] = "MarshalJSON" -> <<b[p], "nil">>
      [] OTHER -> <<>>

\* C13: when the sink has rejected a Write of a Print or Json call, the
\* call hands the failure to its caller as its result.
C13_SinkFailureReported ==
    \A p \in Procs :
        (pc[p] = "done" /\ op[p] \in {"Print", "Json"} /\ wfail[p])
            => Result(p) = <<"failed">>

ReadOps == {"Duration", "Print", "Json", "MarshalJSON"}

\* goroutine p takes the step
Moved(p) == <<pc[p], stack[p], i[p], r[p]>>' # <<pc[p], stack[p], i[p], r[p]>>

\* C14: no step of a Duration, Print, Json or MarshalJSON call changes the
\* keys, the values or the start time, whether or not the sink rejects a
\* Write.
C14_ReadsChangeNothing ==
    [][\A p \in Procs :
          (op[p] \in ReadOps /\ Moved(p)) => UNCHANGED <<keys, values, start>>
      ]_vars

\* a Print whose sink rejected a Write has returned, and a second Print
\* writes every entry of the same store
C14_Witness ==
    \E p, q \in Procs :
        /\ pc[q] = "done" /\ op[q] = "Print" /\ wfail[q]
        /\ PrintReturns(p) /\ keys # <<>> /\ ~wfail[p]
        /\ Len(out[p]) = Len(keys) + 1
        /\ SubSeq(out[p], 1, Len(keys)) = SubSeq(out[q], 1, Len(keys))

\* Duration has read the clock and is about to run the deferred RUnlock
\* (called directly, by Print or by MarshalJSON)
DurationReturns(p) ==
    /\ pc[p] = DurationMu.unlock
    /\ \/ op[p] = "Duration" /\ Head(stack[p]) = "done"
       \/ Head(stack[p]) \in {"Print_durline", "Marshal_dur"}

\* C15 as claimed: the start time is set on construction (clock reading
\* 0), so on a store that was never Reset, Duration returns the time
\* elapsed since construction.
C15_StartSetOnConstruction ==
    \A p \in Procs :
        (DurationReturns(p) /\ ~wasReset) => ret[p] \in 0..now

\* C15 as amended: the start time is set by Reset only.  On a store that
\* was never Reset it is the zero time and Duration returns the saturated
\* maximum duration; after a Reset, Duration returns the time elapsed since
\* the latest Reset.
C15_StartSetByResetOnly ==
    /\ wasReset <=> start # ZeroTime
    /\ \A p \in Procs :
          DurationReturns(p) =>
              IF wasReset
                THEN ret[p] \in {t - start : t \in start..now}
                ELSE ret[p] = maxDuration /\ ret[p] > now

\* Duration returns on a store that was never Reset, after the clock has
\* advanced since construction
C15_Witness ==
    \E p \in Procs :
        DurationReturns(p) /\ ~wasReset /\ now > 0 /\ ret[p] = maxDuration

\* C16: the start time changes only in a Reset, which sets it to the
\* current clock reading; a Duration read with the clock still at that
\* reading returns zero; as long as the start time stays the same the value
\* Duration returns never decreases; no step of an Add changes the start
\* time.
C16_ResetRestartsClock ==
    /\ [](\A p \in Procs :
             (DurationReturns(p) /\ wasReset) =>
                 /\ ret[p] >= 0
                 /\ start = now => ret[p] = 0)
    /\ [][/\ start' # start =>
               /\ \E p \in Procs : op[p] = "Reset" /\ Moved(p)
               /\ start' = now
               /\ Since(start)' = 0
          /\ start' = start => Since(start)' >= Since(start)
          /\ \A p \in Procs :
                (pc[p] = "Duration_since" /\ Moved(p)) => ret'[p] = Since(start)
          /\ \A p \in Procs : (op[p] = "Add" /\ Moved(p)) => start' = start
         ]_vars

\* after a Reset one Duration has returned 0 and a later one returns 1
C16_Witness ==
    \E p, q \in Procs :
        /\ wasReset
        /\ pc[q] = "done" /\ op[q] = "Duration" /\ ret[q] = 0
        /\ DurationReturns(p) /\ op[p] = "Duration" /\ ret[p] = 1

\* C17: no step of Add(a, x) changes the value, the presence or the
\* position of an entry whose name is not a.
C17_AddLeavesOthers ==
    [][\A p \in Procs :
          (op[p] = "Add" /\ Moved(p)) =>
              /\ \A j \in DOMAIN keys :
                    keys[j] # arg[p].k =>
                        /\ j \in DOMAIN keys' /\ keys'[j] = keys[j]
                        /\ j \in DOMAIN values =>
                              j \in DOMAIN values' /\ values'[j] = values[j]
              /\ \A j \in DOMAIN keys' :
                    keys'[j] # arg[p].k => j \in DOMAIN keys
      ]_vars

\* an Add to the first of two entries returns; the other entry holds its
\* own non-zero sum
C17_Witness ==
    \E p \in Procs :
        /\ AddReturns(p) /\ arg[p].v # 0
        /\ Len(keys) = 2 /\ Len(values) = 2
        /\ keys[1] = arg[p].k
        /\ values[2] # 0 /\ values[2] = SumOf(log, keys[2])

\* C18: the store is empty or has entries.  It has entries when an Add
\* returns; it goes from empty to non-empty only in a step of Add and from
\* non-empty to empty only in a step of Reset.
C18_EmptyOrHasEntries ==
    /\ [](\A p \in Procs : AddReturns(p) => keys # <<>>)
    /\ [][/\ (keys = <<>> /\ keys' # <<>>) =>
               \E p \in Procs : op[p] = "Add" /\ Moved(p)
          /\ (keys # <<>> /\ keys' = <<>>) =>
               \E p \in Procs : op[p] = "Reset" /\ Moved(p)
         ]_vars

\* the store has entries again after a Reset emptied it
C18_Witness == Quiet /\ wasReset /\ cleared # {} /\ keys # <<>>

\* C19: while an Add or a Reset is inside its critical section, no other
\* Add or Reset and no Duration, Print or MarshalJSON is inside its own.
\* Readers do not exclude one another: that several are inside together
\* is a reachable state, which C19_Witness shows.
C19_LockDiscipline ==
    \A p \in Procs :
        WriterInside(p) =>
            \A q \in Procs \ {p} : ~WriterInside(q) /\ ~ReaderInside(q)

\* both halves in one run: a writer came to its Unlock while a reader it
\* kept out slept on the reader semaphore, and now two read operations
\* are inside their critical sections at the same time
C19_Witness ==
    /\ excluded
    /\ \E p, q \in Procs : p # q /\ ReaderInside(p) /\ ReaderInside(q)

\* C20: whenever no Add or Reset is inside its critical section (the lock
\* is not write-held), keys and values have the same length.
C20_KeysValuesPair == Quiet => Len(keys) = Len(values)

\* an Add that appended the second entry has returned
C20_Witness ==
    /\ Quiet /\ Len(keys) = 2 /\ Len(values) = 2
    /\ \E p \in Procs :
          pc[p] = "done" /\ op[p] = "Add" /\ keys[2] = arg[p].k
          /\ Len(log) = 2

====
